---------------------------- MODULE Spec2Model ----------------------------
(***************************************************************************)
(* A model of the inside_airbnb package: the loader                        *)
(* (data_loading.py), the preprocessor (preprocessing.py), the analyzer    *)
(* (analysis.py) and the ranked bar chart of visualization.py.             *)
(*                                                                         *)
(* A table (pandas DataFrame) is a record [cols, rows]: the column names   *)
(* in order and the rows in order, each row a function from column name to *)
(* a cell.  A cell is a record [t, n, d, s, c]:                            *)
(*   t = "str"   a Python string, s its characters (price cells)           *)
(*   t = "cat"   a Python string used only as a label, c (categoricals)    *)
(*   t = "int"   an int64 value n                                          *)
(*   t = "float" a float64 value n/d, in lowest terms, d > 0               *)
(*   t = "nan"   the missing-value marker (float NaN)                      *)
(*   t = "inf"   +/- infinity, n its sign                                  *)
(* Floating point values are modelled as exact rationals.                  *)
(***************************************************************************)
EXTENDS Integers, Sequences, FiniteSets, TLC

VARIABLES
    directory,  \* the data folder: a set of files [stem, suffix, table]
    loaded,     \* the last call of load_monthly_listings: [year, exc, reads, df]
    full_df,    \* the caller's table (the object the caller passes in)
    input,      \* history: the value of the caller's table before any call
    cur,        \* the table the last table-returning call returned
    stage,      \* which calls produced cur
    call,       \* the last call: its function, arguments and exception
    out         \* the value the last call returned

vars == <<directory, loaded, full_df, input, cur, stage, call, out>>

(***************************************************************************)
(* Bounds of the model.                                                    *)
(***************************************************************************)
MaxRows == 3
MaxFiles == 2
MaxFileRows == 2

(***************************************************************************)
(* Cells.                                                                  *)
(***************************************************************************)
RECURSIVE Gcd(_, _)
Gcd(a, b) == IF b = 0 THEN a ELSE Gcd(b, a % b)

Abs(x) == IF x < 0 THEN -x ELSE x

Str(chars) == [t |-> "str", n |-> 0, d |-> 1, s |-> chars, c |-> ""]
Cat(label) == [t |-> "cat", n |-> 0, d |-> 1, s |-> <<>>, c |-> label]
Int64(k) == [t |-> "int", n |-> k, d |-> 1, s |-> <<>>, c |-> ""]
NaN == [t |-> "nan", n |-> 0, d |-> 1, s |-> <<>>, c |-> ""]
Inf(sign) == [t |-> "inf", n |-> sign, d |-> 1, s |-> <<>>, c |-> ""]

Float64(num, den) ==
    LET g == Gcd(Abs(num), den)
    IN  [t |-> "float", n |-> num \div g, d |-> den \div g, s |-> <<>>, c |-> ""]

IsNum(v) == v.t \in {"int", "float"}
IsNaN(v) == v.t = "nan"

\* a < b on numbers (IEEE: any comparison with NaN is false)
NumLess(a, b) == IsNum(a) /\ IsNum(b) /\ a.n * b.d < b.n * a.d
NumEq(a, b) == IsNum(a) /\ IsNum(b) /\ a.n * b.d = b.n * a.d

AsFloat(v) == IF v.t = "int" THEN Float64(v.n, 1) ELSE v

Sign(x) == IF x > 0 THEN 1 ELSE IF x < 0 THEN -1 ELSE 0

\* float64 arithmetic on numpy scalars: invalid operations give NaN or
\* infinity (with a warning), they do not raise.
FAdd(a, b) ==
    IF IsNaN(a) \/ IsNaN(b) THEN NaN
    ELSE IF a.t = "inf" /\ b.t = "inf" THEN (IF a.n = b.n THEN a ELSE NaN)
    ELSE IF a.t = "inf" THEN a
    ELSE IF b.t = "inf" THEN b
    ELSE Float64(a.n * b.d + b.n * a.d, a.d * b.d)

FNeg(a) ==
    IF IsNaN(a) THEN NaN
    ELSE IF a.t = "inf" THEN Inf(-a.n)
    ELSE Float64(-a.n, a.d)

FSub(a, b) == FAdd(a, FNeg(b))

FMul(a, b) ==
    IF IsNaN(a) \/ IsNaN(b) THEN NaN
    ELSE IF a.t = "inf" \/ b.t = "inf"
         THEN (IF Sign(a.n) * Sign(b.n) = 0 THEN NaN ELSE Inf(Sign(a.n) * Sign(b.n)))
    ELSE Float64(a.n * b.n, a.d * b.d)

FDiv(a, b) ==
    IF IsNaN(a) \/ IsNaN(b) THEN NaN
    ELSE IF a.t = "inf" /\ b.t = "inf" THEN NaN
    ELSE IF a.t = "inf" THEN Inf(IF b.n < 0 THEN -a.n ELSE a.n)
    ELSE IF b.t = "inf" THEN Float64(0, 1)
    ELSE IF b.n = 0 THEN (IF a.n = 0 THEN NaN ELSE Inf(Sign(a.n)))
    ELSE Float64(a.n * b.d * Sign(b.n), a.d * Abs(b.n))

(***************************************************************************)
(* Strings: characters, str(), and the parse of pd.to_numeric.             *)
(***************************************************************************)
Digits == <<"0", "1", "2", "3", "4", "5", "6", "7", "8", "9">>

IsDigit(ch) == \E i \in 1..10 : Digits[i] = ch
DigitVal(ch) == (CHOOSE i \in 1..10 : Digits[i] = ch) - 1

RECURSIVE NatToChars(_)
NatToChars(k) ==
    IF k < 10 THEN <<Digits[k + 1]>>
    ELSE Append(NatToChars(k \div 10), Digits[(k % 10) + 1])

RECURSIVE CharsToNat(_)
CharsToNat(chars) ==
    IF chars = <<>> THEN 0
    ELSE CharsToNat(SubSeq(chars, 1, Len(chars) - 1)) * 10 + DigitVal(chars[Len(chars)])

RECURSIVE Pow10(_)
Pow10(k) == IF k = 0 THEN 1 ELSE 10 * Pow10(k - 1)

AllDigits(chars) == \A i \in 1..Len(chars) : IsDigit(chars[i])

\* the digits of the fractional part of n/d (d a divisor of a power of ten),
\* at least one digit, as Python's repr of a float writes them
RECURSIVE FracChars(_, _)
FracChars(num, den) ==
    LET q == (num * 10) \div den
        r == (num * 10) % den
    IN  IF r = 0 THEN <<Digits[q + 1]>> ELSE <<Digits[q + 1]>> \o FracChars(r, den)

\* a str(x) that writes a float without its fractional part
PyStrWhole(v) ==
    CASE v.t = "str" -> v.s
      [] v.t = "cat" -> <<v.c>>
      [] v.t = "nan" -> <<"n", "a", "n">>
      [] v.t = "inf" -> (IF v.n < 0 THEN <<"-">> ELSE <<>>) \o <<"i", "n", "f">>
      [] v.t = "int" -> (IF v.n < 0 THEN <<"-">> ELSE <<>>) \o NatToChars(Abs(v.n))
      [] v.t = "float" -> (IF v.n < 0 THEN <<"-">> ELSE <<>>) \o NatToChars(Abs(v.n) \div v.d)

\* str(x) of a cell, as Series.astype(str) applies it
PyStr(v) ==
    CASE v.t = "str" -> v.s
      [] v.t = "cat" -> <<v.c>>
      [] v.t = "nan" -> <<"n", "a", "n">>
      [] v.t = "inf" -> (IF v.n < 0 THEN <<"-">> ELSE <<>>) \o <<"i", "n", "f">>
      [] v.t = "int" -> (IF v.n < 0 THEN <<"-">> ELSE <<>>) \o NatToChars(Abs(v.n))
      [] v.t = "float" ->
            (IF v.n < 0 THEN <<"-">> ELSE <<>>)
            \o NatToChars(Abs(v.n) \div v.d)
            \o <<".">>
            \o FracChars(Abs(v.n) % v.d, v.d)

\* str.replace(old, '', regex=False) for a one-character old
StrRemove(chars, ch) == SelectSeq(chars, LAMBDA x : x # ch)

DotCount(chars) == Cardinality({i \in 1..Len(chars) : chars[i] = "."})
DotPos(chars) == CHOOSE i \in 1..Len(chars) : chars[i] = "."

\* The parse of one string by pd.to_numeric(errors='coerce'): an optional
\* sign, digits and at most one decimal point; anything else is NaN.  An
\* integer literal parses to an int, a literal with a point to a float.
ParseNumber(chars) ==
    LET neg == Len(chars) > 0 /\ chars[1] = "-"
        body == IF neg THEN SubSeq(chars, 2, Len(chars)) ELSE chars
        sgn == IF neg THEN -1 ELSE 1
    IN  IF body = <<>> THEN NaN
        ELSE IF DotCount(body) = 0
             THEN (IF AllDigits(body) THEN Int64(sgn * CharsToNat(body)) ELSE NaN)
        ELSE IF DotCount(body) = 1
             THEN LET p == DotPos(body)
                      ip == SubSeq(body, 1, p - 1)
                      fp == SubSeq(body, p + 1, Len(body))
                  IN  IF AllDigits(ip) /\ AllDigits(fp) /\ Len(ip) + Len(fp) > 0
                      THEN Float64(sgn * (CharsToNat(ip) * Pow10(Len(fp)) + CharsToNat(fp)),
                                   Pow10(Len(fp)))
                      ELSE NaN
        ELSE NaN

(***************************************************************************)
(* Tables.                                                                 *)
(***************************************************************************)
Table(cols, rows) == [cols |-> cols, rows |-> rows]

HasColumn(df, col) == \E i \in 1..Len(df.cols) : df.cols[i] = col

\* df[col]: the column as a sequence of cells
Column(df, col) == [i \in 1..Len(df.rows) |-> df.rows[i][col]]

\* df[col] = values: replaces the column, or appends it as the last column
SetColumn(df, col, values) ==
    LET names == {df.cols[i] : i \in 1..Len(df.cols)} \cup {col}
    IN  Table(IF HasColumn(df, col) THEN df.cols ELSE Append(df.cols, col),
              [i \in 1..Len(df.rows) |->
                  [k \in names |-> IF k = col THEN values[i] ELSE df.rows[i][k]]])

\* the dtype pandas infers for a column of parsed numbers: int64 when every
\* value is an int, float64 as soon as one is a float or missing
InferNumeric(values) ==
    IF \A i \in 1..Len(values) : values[i].t = "int"
    THEN values
    ELSE [i \in 1..Len(values) |-> AsFloat(values[i])]

\* pd.to_numeric(series, errors='coerce') on a column of strings
to_numeric(values) == InferNumeric([i \in 1..Len(values) |-> ParseNumber(values[i].s)])

(***************************************************************************)
(* preprocessing.py.  A function takes the heap h (the sequence of table   *)
(* objects) and the reference r of its argument, and returns the heap, the *)
(* reference of the table it returns and the exception it raised.          *)
(***************************************************************************)
MonthNames ==
    <<"January", "February", "March", "April", "May", "June", "July",
      "August", "September", "October", "November", "December">>

MONTH_MAPPING == [m \in {MonthNames[i] : i \in 1..12} |-> CHOOSE i \in 1..12 : MonthNames[i] = m]

Return(h, r) == [h |-> h, r |-> r, exc |-> "none"]
Raise(h, exc) == [h |-> h, r |-> 0, exc |-> exc]

\* the string the two str.replace calls leave of one cell
StripPrice(v) == Str(StrRemove(StrRemove(PyStr(v), "$"), ","))

\* the statements of clean_price_column on the object at reference d
CleanPriceAt(h, d) ==
    LET stripped == [i \in 1..Len(h[d].rows) |-> StripPrice(h[d].rows[i]["price"])]
        h1 == [h EXCEPT ![d] = SetColumn(h[d], "price", stripped)]
        h2 == [h1 EXCEPT ![d] = SetColumn(h1[d], "price", to_numeric(Column(h1[d], "price")))]
    IN  Return(h2, d)

\* a clean_price_column that forgets df.copy() and writes to its argument
clean_price_column_inplace(h, r) == CleanPriceAt(h, r)

clean_price_column(h, r) == CleanPriceAt(Append(h, h[r]), Len(h) + 1)

\* Series.map(MONTH_MAPPING): a key of the dict gives its number, anything
\* else (another string, a missing value) gives NaN
MapMonth(v) ==
    IF v.t = "cat" /\ v.c \in DOMAIN MONTH_MAPPING THEN Int64(MONTH_MAPPING[v.c]) ELSE NaN

add_month_number(h, r) ==
    LET h1 == Append(h, h[r])
        d == Len(h1)
        nums == InferNumeric([i \in 1..Len(h1[d].rows) |-> MapMonth(h1[d].rows[i]["month"])])
    IN  Return([h1 EXCEPT ![d] = SetColumn(h1[d], "month_num", nums)], d)

\* the comparison written <= instead of <
KeepBelowOrEqual(df, max_price) ==
    Table(df.cols, SelectSeq(df.rows, LAMBDA row : NumLess(row["price"], Int64(max_price))
                                                    \/ NumEq(row["price"], Int64(max_price))))

\* the comparison written > instead of <
KeepAbove(df, max_price) ==
    Table(df.cols, SelectSeq(df.rows, LAMBDA row : NumLess(Int64(max_price), row["price"])))

\* df[df[price_col] < max_price]: a comparison with NaN is False
PriceMask(df, max_price) ==
    Table(df.cols, SelectSeq(df.rows, LAMBDA row : NumLess(row["price"], Int64(max_price))))

\* a filter_price_outliers that reports no percentage of a table without rows
filter_price_outliers_guarded(h, r, max_price, verbose) ==
    IF \E i \in 1..Len(h[r].rows) : h[r].rows[i]["price"].t \in {"str", "cat"}
    THEN Raise(h, "TypeError")
    ELSE Return(Append(h, PriceMask(h[r], max_price)), Len(h) + 1)

\* comparing a column that holds a string with a float raises TypeError; the
\* retained percentage divides by the original row count
filter_price_outliers(h, r, max_price, verbose) ==
    LET original_count == Len(h[r].rows)
    IN  IF \E i \in 1..original_count : h[r].rows[i]["price"].t \in {"str", "cat"}
        THEN Raise(h, "TypeError")
        ELSE LET h1 == Append(h, PriceMask(h[r], max_price))
             IN  IF verbose /\ original_count = 0
                 THEN Raise(h1, "ZeroDivisionError")
                 ELSE Return(h1, Len(h1))

preprocess_data(h, r, max_price, verbose) ==
    LET c == clean_price_column(h, r)
        a == add_month_number(c.h, c.r)
    IN  filter_price_outliers(a.h, a.r, max_price, verbose)

(***************************************************************************)
(* analysis.py.                                                            *)
(***************************************************************************)
\* Python's order of the strings the model uses as labels
LabelOrder ==
    <<"A", "B", "Bronx", "Brooklyn", "Bushwick", "February", "Harlem", "January",
      "Manhattan", "March", "Smarch", "SoHo">>

LabelRank(label) == CHOOSE i \in 1..Len(LabelOrder) : LabelOrder[i] = label

KeyLess(a, b) ==
    IF IsNum(a) THEN NumLess(a, b) ELSE LabelRank(a.c) < LabelRank(b.c)

RECURSIVE SetToSeq(_)
SetToSeq(S) ==
    IF S = {} THEN <<>>
    ELSE LET x == CHOOSE y \in S : TRUE IN <<x>> \o SetToSeq(S \ {x})

\* the keys of df.groupby(col), sorted: missing keys are dropped
GroupKeys(df, col) ==
    SortSeq(SetToSeq({df.rows[i][col] : i \in 1..Len(df.rows)} \ {NaN}), KeyLess)

\* the prices of one group, in row order
GroupPrices(df, col, key) ==
    LET members == SelectSeq(df.rows, LAMBDA row : row[col] = key)
    IN  [i \in 1..Len(members) |-> members[i]["price"]]

RECURSIVE FSum(_)
FSum(values) ==
    IF values = <<>> THEN Float64(0, 1)
    ELSE FAdd(AsFloat(Head(values)), FSum(Tail(values)))

\* the non-missing values: the reductions skip NaN
Valid(values) == SelectSeq(values, LAMBDA v : IsNum(v))

Count(values) == Len(Valid(values))

Mean(values) ==
    IF Count(values) = 0 THEN NaN
    ELSE FDiv(FSum(Valid(values)), Float64(Count(values), 1))

Median(values) ==
    LET sorted == SortSeq(Valid(values), NumLess)
        k == Len(sorted)
    IN  IF k = 0 THEN NaN
        ELSE IF k % 2 = 1 THEN AsFloat(sorted[(k + 1) \div 2])
        ELSE FDiv(FAdd(AsFloat(sorted[k \div 2]), AsFloat(sorted[k \div 2 + 1])), Float64(2, 1))

\* the sample variance (ddof = 1); 'std' is its square root
Variance(values) ==
    LET v == Valid(values)
        m == Mean(values)
        sq == [i \in 1..Len(v) |-> FMul(FSub(AsFloat(v[i]), m), FSub(AsFloat(v[i]), m))]
    IN  IF Len(v) < 2 THEN NaN ELSE FDiv(FSum(sq), Float64(Len(v) - 1, 1))

\* min and max of a Series skip NaN; NaN when nothing is left
SeriesMin(values) ==
    LET v == Valid(values)
    IN  IF v = <<>> THEN NaN
        ELSE AsFloat(CHOOSE x \in {v[i] : i \in 1..Len(v)} :
                        \A j \in 1..Len(v) : ~NumLess(v[j], x))

SeriesMax(values) ==
    LET v == Valid(values)
    IN  IF v = <<>> THEN NaN
        ELSE AsFloat(CHOOSE x \in {v[i] : i \in 1..Len(v)} :
                        \A j \in 1..Len(v) : ~NumLess(x, v[j]))

\* pd.to_datetime(text, format='%m').month_name(): the text must be a month
\* number and nothing else; "" stands for the ValueError
MonthNameOf(chars) ==
    IF Len(chars) \in {1, 2} /\ AllDigits(chars) /\ CharsToNat(chars) \in 1..12
    THEN MonthNames[CharsToNat(chars)]
    ELSE ""

StatsRow(df, col, key) ==
    LET p == GroupPrices(df, col, key)
    IN  [key |-> key, count |-> Count(p), mean |-> Mean(p), median |-> Median(p),
         var |-> Variance(p), month |-> ""]

calculate_rental_stats(df, groupby_col) ==
    LET keys == GroupKeys(df, groupby_col)
        stats == [i \in 1..Len(keys) |-> StatsRow(df, groupby_col, keys[i])]
        names == [i \in 1..Len(keys) |-> MonthNameOf(PyStr(keys[i]))]
    IN  IF groupby_col = "month_num"
        THEN IF \E i \in 1..Len(keys) : names[i] = ""
             THEN [exc |-> "ValueError", stats |-> <<>>]
             ELSE [exc |-> "none",
                   stats |-> [i \in 1..Len(keys) |-> [stats[i] EXCEPT !.month = names[i]]]]
        ELSE [exc |-> "none", stats |-> stats]

\* the rows of the "other" side taken as every row, the target's included
OtherRowsAll(df, borough_col, target_borough) == df.rows

\* df[df[borough_col] != target_borough]: a missing borough is not equal
OtherRows(df, borough_col, target_borough) ==
    SelectSeq(df.rows, LAMBDA row : row[borough_col] # Cat(target_borough))

compare_boroughs(df, borough_col, target_borough) ==
    LET target == SelectSeq(df.rows, LAMBDA row : row[borough_col] = Cat(target_borough))
        other == OtherRows(df, borough_col, target_borough)
        target_avg == Mean([i \in 1..Len(target) |-> target[i]["price"]])
        other_avg == Mean([i \in 1..Len(other) |-> other[i]["price"]])
    IN  [exc |-> "none", target_avg |-> target_avg, other_avg |-> other_avg,
         Ratio |-> FDiv(target_avg, other_avg)]

\* the comparison written >= instead of >
LuxuryRowsInclusive(df, price_threshold) ==
    SelectSeq(df.rows, LAMBDA row : ~NumLess(row["price"], Int64(price_threshold))
                                    /\ IsNum(row["price"]))

\* df[df[price_col] > price_threshold]
LuxuryRows(df, price_threshold) ==
    SelectSeq(df.rows, LAMBDA row : NumLess(Int64(price_threshold), row["price"]))

\* groupby_col = "" stands for None
count_luxury_listings(df, price_threshold, groupby_col) ==
    LET luxury_df == Table(df.cols, LuxuryRows(df, price_threshold))
        keys == GroupKeys(luxury_df, groupby_col)
    IN  IF groupby_col # ""
        THEN [exc |-> "none", grouped |-> TRUE, n |-> 0,
              sizes |-> [i \in 1..Len(keys) |->
                            [key |-> keys[i],
                             size |-> Len(GroupPrices(luxury_df, groupby_col, keys[i]))]]]
        ELSE [exc |-> "none", grouped |-> FALSE, n |-> Len(luxury_df.rows), sizes |-> <<>>]

\* the per-group means of calculate_seasonal_range
GroupMeans(df, groupby_col) ==
    LET keys == GroupKeys(df, groupby_col)
    IN  [i \in 1..Len(keys) |-> Mean(GroupPrices(df, groupby_col, keys[i]))]

\* the percentage taken of the maximum instead of the minimum
PctRangeOfMax(price_range, min_price, max_price) ==
    FMul(FDiv(price_range, max_price), Float64(100, 1))

PctRange(price_range, min_price, max_price) ==
    FMul(FDiv(price_range, min_price), Float64(100, 1))

calculate_seasonal_range(df, groupby_col) ==
    LET monthly_avg == GroupMeans(df, groupby_col)
        min_price == SeriesMin(monthly_avg)
        max_price == SeriesMax(monthly_avg)
        price_range == FSub(max_price, min_price)
    IN  [exc |-> "none", min_price |-> min_price, max_price |-> max_price,
         range |-> price_range, pct_range |-> PctRange(price_range, min_price, max_price)]

(***************************************************************************)
(* visualization.py: plot_manhattan_neighborhood_prices.                   *)
(***************************************************************************)
\* the keyword arguments Series.sort_values accepts
SortValuesKeywords ==
    {"axis", "ascending", "inplace", "kind", "na_position", "ignore_index", "key"}

\* Series.sort_values(**{keyword: TRUE}) on a series of [key, value]: an
\* unknown keyword raises TypeError
SortValues(series, keyword) ==
    IF keyword \notin SortValuesKeywords
    THEN [exc |-> "TypeError", series |-> <<>>]
    ELSE [exc |-> "none",
          series |-> SortSeq(series, LAMBDA a, b : NumLess(a.value, b.value))]

SeriesHead(series, k) == SubSeq(series, 1, IF k < Len(series) THEN k ELSE Len(series))

\* top_n = 0 stands for None, save_path = "" for None
plot_manhattan_neighborhood_prices(df, top_n, save_path) ==
    LET manhattan_df == Table(df.cols,
                              SelectSeq(df.rows, LAMBDA row :
                                  row["neighbourhood_group_cleansed"] = Cat("Manhattan")))
        keys == GroupKeys(manhattan_df, "neighbourhood_cleansed")
        avg == [i \in 1..Len(keys) |->
                   [key |-> keys[i],
                    value |-> Mean(GroupPrices(manhattan_df, "neighbourhood_cleansed", keys[i]))]]
        sorted == SortValues(avg, "descending")
        neighborhood_avg == IF top_n # 0 THEN SeriesHead(sorted.series, top_n) ELSE sorted.series
    IN  IF sorted.exc # "none"
        THEN [exc |-> sorted.exc, returned |-> FALSE, shown |-> <<>>, saved |-> ""]
        ELSE [exc |-> "none", returned |-> TRUE, shown |-> neighborhood_avg, saved |-> save_path]

(***************************************************************************)
(* data_loading.py.  A file is [stem, suffix, table]: stem is the file     *)
(* name without its suffix, split at "_"; table is what pd.read_csv        *)
(* returns for it.  A year is the text of the year.                        *)
(***************************************************************************)
\* the stems the model's directories draw from, in Python's order of the
\* file names (sorted() compares the paths as strings)
NameOrder ==
    << <<"listings", "February", "2025">>,
       <<"listings", "January", "2025">>,
       <<"listings", "March", "2024">>,
       <<"listings", "detailed", "January", "2025">>,
       <<"listings", "jan", "2025">>,
       <<"reviews", "January", "2025">> >>

NameRank(stem) == CHOOSE i \in 1..Len(NameOrder) : NameOrder[i] = stem

\* a glob that forgets the year: listings_*_*.csv
GlobAnyYear(dir, year) ==
    {f \in dir : f.suffix = "csv" /\ Len(f.stem) >= 3 /\ f.stem[1] = "listings"}

\* data_folder.glob(f"listings_*_{year}.csv")
Glob(dir, year) ==
    {f \in dir : /\ f.suffix = "csv"
                 /\ Len(f.stem) >= 3
                 /\ f.stem[1] = "listings"
                 /\ f.stem[Len(f.stem)] = year}

Sorted(files) == SortSeq(SetToSeq(files), LAMBDA a, b : NameRank(a.stem) < NameRank(b.stem))

\* f.stem.split("_")[1]
MonthStr(stem) == stem[2]

\* one pass of the loop: read the file and tag its rows
ReadTagged(f) ==
    SetColumn(f.table, "month", [i \in 1..Len(f.table.rows) |-> Cat(MonthStr(f.stem))])

RECURSIVE UnionCols(_)
UnionCols(dfs) ==
    IF dfs = <<>> THEN <<>>
    ELSE LET rest == UnionCols(SubSeq(dfs, 1, Len(dfs) - 1))
             last == dfs[Len(dfs)]
         IN  rest \o SelectSeq(last.cols, LAMBDA k : \A i \in 1..Len(rest) : rest[i] # k)

RECURSIVE ConcatRows(_, _)
ConcatRows(dfs, cols) ==
    IF dfs = <<>> THEN <<>>
    ELSE [i \in 1..Len(Head(dfs).rows) |->
             [k \in {cols[j] : j \in 1..Len(cols)} |->
                 IF HasColumn(Head(dfs), k) THEN Head(dfs).rows[i][k] ELSE NaN]]
         \o ConcatRows(Tail(dfs), cols)

\* pd.concat(dfs, ignore_index=True)
Concat(dfs) == Table(UnionCols(dfs), ConcatRows(dfs, UnionCols(dfs)))

load_monthly_listings(dir, year) ==
    LET files == Sorted(Glob(dir, year))
        dfs == [i \in 1..Len(files) |-> ReadTagged(files[i])]
    IN  IF files = <<>>
        THEN [year |-> year, exc |-> "FileNotFoundError", reads |-> <<>>,
              df |-> Table(<<>>, <<>>)]
        ELSE [year |-> year, exc |-> "none", reads |-> files, df |-> Concat(dfs)]

(***************************************************************************)
(* The inputs of the model.                                                *)
(***************************************************************************)
RECURSIVE SeqsUpTo(_, _)
SeqsUpTo(S, k) ==
    IF k = 0 THEN {<<>>}
    ELSE LET shorter == SeqsUpTo(S, k - 1)
         IN  shorter \cup {Append(q, x) : q \in {p \in shorter : Len(p) = k - 1}, x \in S}

FileCols == <<"price", "neighbourhood_group_cleansed", "neighbourhood_cleansed">>
LoadedCols == Append(FileCols, "month")

FileRow(price, borough, neighborhood) ==
    [k \in {"price", "neighbourhood_group_cleansed", "neighbourhood_cleansed"} |->
        CASE k = "price" -> price
          [] k = "neighbourhood_group_cleansed" -> borough
          [] k = "neighbourhood_cleansed" -> neighborhood]

Row(price, borough, neighborhood, month) ==
    [k \in {"price", "neighbourhood_group_cleansed", "neighbourhood_cleansed", "month"} |->
        CASE k = "price" -> price
          [] k = "neighbourhood_group_cleansed" -> borough
          [] k = "neighbourhood_cleansed" -> neighborhood
          [] k = "month" -> month]

Dollars(chars) == Str(<<"$">> \o chars)

\* the rows the tables of the preprocessing and analysis model draw from
RowTemplates ==
    { Row(Dollars(<<"1", "0", "0">>), Cat("Manhattan"), Cat("Harlem"), Cat("January")),
      Row(Dollars(<<"2", ",", "5", "0", "0">>), Cat("Manhattan"), Cat("SoHo"), Cat("Smarch")),
      Row(Dollars(<<"6", ",", "0", "0", "0", ".", "0", "0">>), NaN, Cat("Bushwick"),
          Cat("February")),
      Row(Dollars(<<"0">>), Cat("Brooklyn"), Cat("Bushwick"), Cat("February")),
      Row(NaN, Cat("Brooklyn"), NaN, Cat("March")) }

PlainRow(price, borough, month) ==
    Row(Dollars(price), Cat(borough), Cat("Harlem"), Cat(month))

\* "$100", "$2,500", "$6,000"
FilterExample ==
    Table(LoadedCols, << PlainRow(<<"1", "0", "0">>, "Manhattan", "January"),
                         PlainRow(<<"2", ",", "5", "0", "0">>, "Manhattan", "January"),
                         PlainRow(<<"6", ",", "0", "0", "0">>, "Brooklyn", "January") >>)

\* group A = [10, 20, 30], group B = [100]
StatsExample ==
    Table(LoadedCols, << PlainRow(<<"1", "0">>, "A", "January"),
                         PlainRow(<<"2", "0">>, "A", "January"),
                         PlainRow(<<"3", "0">>, "A", "January"),
                         PlainRow(<<"1", "0", "0">>, "B", "January") >>)

\* monthly means {1: 100, 2: 150, 3: 90}
SeasonalExample ==
    Table(LoadedCols, << PlainRow(<<"1", "0", "0">>, "Manhattan", "January"),
                         PlainRow(<<"1", "5", "0">>, "Manhattan", "February"),
                         PlainRow(<<"9", "0">>, "Manhattan", "March") >>)

\* prices {50, 150, 1500}
LuxuryExample ==
    Table(LoadedCols, << PlainRow(<<"5", "0">>, "Manhattan", "January"),
                         PlainRow(<<"1", "5", "0">>, "Brooklyn", "January"),
                         PlainRow(<<"1", ",", "5", "0", "0">>, "Brooklyn", "January") >>)

\* a price column that is already numeric
NumericExample ==
    Table(LoadedCols, << Row(Float64(100, 1), Cat("Manhattan"), Cat("Harlem"), Cat("January")),
                         Row(Float64(5000, 1), Cat("Brooklyn"), Cat("Bushwick"), Cat("January")),
                         Row(NaN, Cat("Brooklyn"), Cat("Bushwick"), Cat("January")) >>)

\* a price that is no number
UnparseableExample ==
    Table(LoadedCols, << Row(Str(<<"a", "b", "c">>), Cat("Manhattan"), Cat("Harlem"),
                             Cat("January")),
                         PlainRow(<<"1", "0", "0">>, "Manhattan", "January") >>)

\* prices with cents: "$19.5", "$1,234.50", "$0.5"
FractionalExample ==
    Table(LoadedCols, << PlainRow(<<"1", "9", ".", "5">>, "Manhattan", "January"),
                         PlainRow(<<"1", ",", "2", "3", "4", ".", "5", "0">>, "Brooklyn",
                                  "February"),
                         PlainRow(<<"0", ".", "5">>, "Brooklyn", "March") >>)

\* the tables of the examples the specification gives
ExampleTables ==
    {FilterExample, StatsExample, SeasonalExample, LuxuryExample, NumericExample,
     UnparseableExample, FractionalExample}

RawTables == {Table(LoadedCols, rows) : rows \in SeqsUpTo(RowTemplates, MaxRows)} \cup ExampleTables

FileRowTemplates ==
    { FileRow(Dollars(<<"1", "0", "0">>), Cat("Manhattan"), Cat("Harlem")),
      FileRow(Dollars(<<"6", ",", "0", "0", "0">>), Cat("Brooklyn"), Cat("Bushwick")) }

FileTables == {Table(FileCols, rows) : rows \in SeqsUpTo(FileRowTemplates, MaxFileRows)}

Years == {"2024", "2025"}
MaxPrices == {5000, 2500}
GroupColumns == {"month_num", "neighbourhood_group_cleansed"}
Boroughs == {"Manhattan", "Brooklyn"}
Thresholds == {1000, 2500}
TopNs == {0, 1}
SavePaths == {"", "chart.png"}

(***************************************************************************)
(* The callers.                                                            *)
(***************************************************************************)
NoTable == Table(<<>>, <<>>)
NotLoaded == [year |-> "", exc |-> "not called", reads |-> <<>>, df |-> NoTable]

NoCall ==
    [fn |-> "none", exc |-> "none", src |-> 0, arg |-> NoTable, max_price |-> 0,
     verbose |-> FALSE, groupby_col |-> "", target_borough |-> "", price_threshold |-> 0,
     top_n |-> 0, save_path |-> "", ref |-> 0]

InitLoad ==
    /\ \E S \in SUBSET {NameOrder[i] : i \in 1..Len(NameOrder)} :
          /\ Cardinality(S) <= MaxFiles
          /\ \E content \in [S -> FileTables] :
                directory = {[stem |-> s, suffix |-> "csv", table |-> content[s]] : s \in S}
    /\ loaded = NotLoaded
    /\ full_df = NoTable
    /\ input = NoTable
    /\ cur = NoTable
    /\ stage = "none"
    /\ call = NoCall
    /\ out = <<>>

Init ==
    /\ directory = {}
    /\ loaded = NotLoaded
    /\ full_df \in RawTables
    /\ input = full_df
    /\ cur = NoTable
    /\ stage = "none"
    /\ call = NoCall
    /\ out = <<>>

\* full_df = load_monthly_listings(data_folder, year)
LoadMonthlyListings(year) ==
    /\ loaded' = load_monthly_listings(directory, year)
    /\ UNCHANGED <<directory, full_df, input, cur, stage, call, out>>

AnalysisFns ==
    {"calculate_rental_stats", "compare_boroughs", "count_luxury_listings",
     "calculate_seasonal_range", "plot_manhattan_neighborhood_prices"}

\* The analyzer and the visualizer change neither table, so the calls that
\* can follow one of their calls are the calls that could be made in its
\* place: the callers make every call from a state a table call left.
Idle == call.fn \notin AnalysisFns

\* the heap a call starts from, and the table at reference src
Heap == IF stage = "none" THEN <<full_df>> ELSE <<full_df, cur>>

\* what a table-returning call leaves: the caller's object as the call left
\* it, the returned table, and the record of the call
TableCall(o, fn, src, next, max_price, verbose) ==
    /\ Idle
    /\ full_df' = o.h[1]
    /\ cur' = IF o.exc = "none" THEN o.h[o.r] ELSE IF stage = "none" THEN cur ELSE o.h[2]
    /\ stage' = IF o.exc = "none" THEN next ELSE stage
    /\ call' = [NoCall EXCEPT !.fn = fn, !.exc = o.exc, !.src = src, !.arg = Heap[src],
                              !.max_price = max_price, !.verbose = verbose, !.ref = o.r]
    /\ out' = IF o.exc = "none" THEN o.h[o.r] ELSE <<>>
    /\ UNCHANGED <<directory, loaded, input>>

\* clean_price_column on the caller's table, or again on the table a first
\* clean_price_column returned
CallCleanPriceColumn(src) ==
    /\ src = 2 => stage = "cleaned"
    /\ TableCall(clean_price_column(Heap, src), "clean_price_column", src, "cleaned", 0, FALSE)

CallAddMonthNumber(src) ==
    /\ src = 2 => stage = "cleaned"
    /\ TableCall(add_month_number(Heap, src), "add_month_number", src,
                 IF src = 1 THEN "month_only" ELSE "numbered", 0, FALSE)

CallFilterPriceOutliers(src, max_price, verbose) ==
    /\ src = 2 => stage = "cleaned"
    /\ TableCall(filter_price_outliers(Heap, src, max_price, verbose), "filter_price_outliers",
                 src, IF src = 1 THEN "filtered_only" ELSE "filtered", max_price, verbose)

CallPreprocessData(max_price, verbose) ==
    TableCall(preprocess_data(Heap, 1, max_price, verbose), "preprocess_data", 1,
              "processed", max_price, verbose)

\* the analyzer and the visualizer are called on a table with numeric prices
\* and a month_num column
Analyzable == stage \in {"processed", "numbered"}

AnalysisCall(o, c) ==
    /\ Idle
    /\ Analyzable
    /\ call' = [c EXCEPT !.exc = o.exc, !.arg = cur]
    /\ out' = o
    /\ UNCHANGED <<directory, loaded, full_df, input, cur, stage>>

CallCalculateRentalStats(groupby_col) ==
    AnalysisCall(calculate_rental_stats(cur, groupby_col),
                 [NoCall EXCEPT !.fn = "calculate_rental_stats", !.groupby_col = groupby_col])

CallCompareBoroughs(target_borough) ==
    AnalysisCall(compare_boroughs(cur, "neighbourhood_group_cleansed", target_borough),
                 [NoCall EXCEPT !.fn = "compare_boroughs", !.target_borough = target_borough])

CallCountLuxuryListings(price_threshold, groupby_col) ==
    AnalysisCall(count_luxury_listings(cur, price_threshold, groupby_col),
                 [NoCall EXCEPT !.fn = "count_luxury_listings",
                                !.price_threshold = price_threshold,
                                !.groupby_col = groupby_col])

CallCalculateSeasonalRange(groupby_col) ==
    AnalysisCall(calculate_seasonal_range(cur, groupby_col),
                 [NoCall EXCEPT !.fn = "calculate_seasonal_range", !.groupby_col = groupby_col])

CallPlotManhattanNeighborhoodPrices(top_n, save_path) ==
    AnalysisCall(plot_manhattan_neighborhood_prices(cur, top_n, save_path),
                 [NoCall EXCEPT !.fn = "plot_manhattan_neighborhood_prices",
                                !.top_n = top_n, !.save_path = save_path])

Next ==
    \/ \E src \in {1, 2} : CallCleanPriceColumn(src)
    \/ \E src \in {1, 2} : CallAddMonthNumber(src)
    \/ \E src \in {1, 2}, m \in MaxPrices, v \in BOOLEAN : CallFilterPriceOutliers(src, m, v)
    \/ \E m \in MaxPrices, v \in BOOLEAN : CallPreprocessData(m, v)
    \/ \E g \in GroupColumns : CallCalculateRentalStats(g)
    \/ \E b \in Boroughs : CallCompareBoroughs(b)
    \/ \E t \in Thresholds, g \in GroupColumns \cup {""} : CallCountLuxuryListings(t, g)
    \/ \E g \in GroupColumns : CallCalculateSeasonalRange(g)
    \/ \E n \in TopNs, p \in SavePaths : CallPlotManhattanNeighborhoodPrices(n, p)

Spec == Init /\ [][Next]_vars

NextLoad == \E year \in Years : LoadMonthlyListings(year)

SpecLoad == InitLoad /\ [][NextLoad]_vars

(***************************************************************************)
(* Properties.                                                             *)
(***************************************************************************)
PriceOf(row) == row["price"]

\* the cleaned price of one cell of the caller's table
CleanedPrice(v) == ParseNumber(StripPrice(v).s)

TableFns ==
    {"clean_price_column", "add_month_number", "filter_price_outliers", "preprocess_data"}

\* the rows of the table are the rows of a at the indices kept, in order
RowsAreExactly(rows, a, kept) ==
    /\ Len(rows) = Cardinality(kept)
    /\ \A i \in kept : rows[Cardinality({j \in kept : j <= i})] = a.rows[i]

\* C1: filter_price_outliers returns exactly the rows of its argument whose
\* numeric price is strictly below max_price, in their order and unchanged; a
\* row whose price equals max_price is removed; "$100", "$2,500", "$6,000"
\* cleaned and filtered at 5000 leave the first two rows, 100 and 2500.
FilterKeepsRowsBelowCeiling ==
    (call.fn = "filter_price_outliers" /\ call.exc = "none") =>
        LET a == call.arg
            ceiling == Int64(call.max_price)
            kept == {i \in 1..Len(a.rows) : NumLess(PriceOf(a.rows[i]), ceiling)}
        IN  /\ out.cols = a.cols
            /\ RowsAreExactly(out.rows, a, kept)
            /\ \A j \in 1..Len(out.rows) : ~NumEq(PriceOf(out.rows[j]), ceiling)
            /\ (input = FilterExample /\ call.src = 2 /\ call.max_price = 5000) =>
                  /\ Len(out.rows) = 2
                  /\ out.rows[1] = a.rows[1] /\ out.rows[2] = a.rows[2]
                  /\ NumEq(PriceOf(out.rows[1]), Int64(100))
                  /\ NumEq(PriceOf(out.rows[2]), Int64(2500))

FilterExampleFiltered ==
    /\ input = FilterExample
    /\ call.fn = "filter_price_outliers" /\ call.exc = "none"
    /\ call.src = 2 /\ call.max_price = 5000
    /\ Len(call.arg.rows) = 3 /\ Len(out.rows) = 2

\* C2: preprocess_data returns no more rows than it was given, and as many
\* only when no input row has a cleaned price above the ceiling.
PreprocessNeverAddsRows ==
    (call.fn = "preprocess_data" /\ call.exc = "none") =>
        /\ Len(out.rows) <= Len(call.arg.rows)
        /\ Len(out.rows) = Len(call.arg.rows) =>
              \A i \in 1..Len(call.arg.rows) :
                  ~NumLess(Int64(call.max_price), CleanedPrice(PriceOf(call.arg.rows[i])))

PreprocessKeptEveryRow ==
    /\ call.fn = "preprocess_data" /\ call.exc = "none"
    /\ Len(call.arg.rows) >= 2
    /\ Len(out.rows) = Len(call.arg.rows)

\* C3: preprocess_data cleans, numbers, then filters, and returns a new
\* table; the caller's table is the same after the call as before it, and
\* after each of the three steps called on its own.
PreprocessLeavesCallerTable ==
    /\ full_df = input
    /\ (call.fn \in TableFns /\ call.exc = "none") => call.ref # call.src
    /\ call.fn = "preprocess_data" =>
          /\ call.exc \in {"none", "ZeroDivisionError"}
          /\ call.exc = "none" =>
                /\ out.cols = Append(input.cols, "month_num")
                /\ \A j \in 1..Len(out.rows) :
                      LET row == out.rows[j]
                      IN  /\ NumLess(PriceOf(row), Int64(call.max_price))
                          /\ \E i \in 1..Len(input.rows) :
                                /\ PriceOf(row) = AsFloat(CleanedPrice(PriceOf(input.rows[i])))
                                   \/ PriceOf(row) = CleanedPrice(PriceOf(input.rows[i]))
                                /\ row["month"] = input.rows[i]["month"]
                          /\ IF \E k \in 1..12 : row["month"] = Cat(MonthNames[k])
                             THEN \E k \in 1..12 : /\ row["month"] = Cat(MonthNames[k])
                                                   /\ NumEq(row["month_num"], Int64(k))
                             ELSE IsNaN(row["month_num"])

PreprocessedUncleanedTable ==
    /\ call.fn = "preprocess_data" /\ call.exc = "none"
    /\ \A i \in 1..Len(input.rows) : PriceOf(input.rows[i]).t = "str"
    /\ full_df = input
    /\ Len(out.rows) >= 1
    /\ Len(out.rows) < Len(input.rows)

\* the files of the directory that match listings_*_<year>.csv
Matches(f, year) ==
    /\ f.suffix = "csv"
    /\ Len(f.stem) >= 3
    /\ f.stem[1] = "listings"
    /\ f.stem[Len(f.stem)] = year

RECURSIVE RowCount(_)
RowCount(files) ==
    IF files = <<>> THEN 0 ELSE Len(Head(files).table.rows) + RowCount(Tail(files))

\* C4 (the part about the counts and the columns): the loaded table has the
\* rows of the matching files and their columns plus 'month'.
LoadedRowsAreTheFilesRows ==
    (loaded.exc = "none") =>
        /\ Len(loaded.df.rows) = RowCount(SetToSeq({f \in directory : Matches(f, loaded.year)}))
        /\ loaded.df.cols = Append(FileCols, "month")

\* C4: with at least one matching file the loaded table has the rows of the
\* matching files, their columns plus 'month', and in each row the month
\* token of its file: what stands between "listings_" and "_<year>".
LoadedTableTagsMonthToken ==
    (loaded.exc # "not called" /\ \E f \in directory : Matches(f, loaded.year)) =>
        /\ loaded.exc = "none"
        /\ Len(loaded.df.rows) = RowCount(SetToSeq({f \in directory : Matches(f, loaded.year)}))
        /\ loaded.df.cols = Append(FileCols, "month")
        /\ \A k \in 1..Len(loaded.reads) :
              \A i \in 1..Len(loaded.reads[k].table.rows) :
                  LET row == loaded.df.rows[RowCount(SubSeq(loaded.reads, 1, k - 1)) + i]
                      stem == loaded.reads[k].stem
                  IN  <<row["month"].c>> = SubSeq(stem, 2, Len(stem) - 1)

\* C5: with no file matching listings_*_<year>.csv for the requested year
\* the loader raises FileNotFoundError, reads no file and returns no table,
\* whatever files of other years the directory holds.
LoadWithoutMatchRaises ==
    (loaded.exc # "not called" /\ ~\E f \in directory : Matches(f, loaded.year)) =>
        /\ loaded.exc = "FileNotFoundError"
        /\ loaded.reads = <<>>
        /\ loaded.df = NoTable

LoadRaisedBesideOtherYear ==
    /\ loaded.exc = "FileNotFoundError"
    /\ \E f \in directory :
          /\ f.stem[1] = "listings"
          /\ f.stem[Len(f.stem)] \in Years \ {loaded.year}
          /\ Len(f.table.rows) >= 1

\* m is the mean of the values: NaN without a value, else m * count = sum
IsMeanOf(m, values) ==
    IF Valid(values) = <<>> THEN IsNaN(m)
    ELSE IsNum(m) /\ FMul(m, Float64(Len(Valid(values)), 1)) = FSum(Valid(values))

\* q is x / y in float arithmetic
IsQuotientOf(q, x, y) ==
    IF IsNaN(x) \/ IsNaN(y) THEN IsNaN(q)
    ELSE IF y.n = 0 THEN q.t \in {"inf", "nan"}
    ELSE IsNum(q) /\ FMul(q, y) = x

PricesWhere(a, Test(_)) ==
    LET members == SelectSeq(a.rows, Test)
    IN  [i \in 1..Len(members) |-> PriceOf(members[i])]

\* the keys of a column: its values, the missing one apart
KeysOf(a, col) == {a.rows[i][col] : i \in 1..Len(a.rows)} \ {NaN}

\* C6: calculate_rental_stats returns one row per key, sorted, with the
\* count, mean and median of the group (A = [10, 20, 30]: 3, 20, 20;
\* B = [100]: 1, 100, 100); grouped by month_num on any table preprocess_data
\* produced it completes and each row carries the month name of its key.
RentalStatsOfProcessedTable ==
    (call.fn = "calculate_rental_stats" /\ stage = "processed") =>
        LET a == call.arg
            col == call.groupby_col
        IN  /\ call.exc = "none"
            /\ Len(out.stats) = Cardinality(KeysOf(a, col))
            /\ \A i \in 1..Len(out.stats) :
                  LET s == out.stats[i]
                      p == PricesWhere(a, LAMBDA row : row[col] = s.key)
                  IN  /\ s.key \in KeysOf(a, col)
                      /\ \A j \in 1..Len(out.stats) : i < j => KeyLess(s.key, out.stats[j].key)
                      /\ s.count = Len(Valid(p))
                      /\ IsMeanOf(s.mean, p)
                      /\ s.median = Median(p)
                      /\ col = "month_num" => s.month = MonthNames[s.key.n]
            /\ (input = StatsExample /\ col = "neighbourhood_group_cleansed") =>
                  /\ Len(out.stats) = 2
                  /\ out.stats[1].key = Cat("A") /\ out.stats[1].count = 3
                  /\ out.stats[1].mean = Float64(20, 1) /\ out.stats[1].median = Float64(20, 1)
                  /\ out.stats[2].key = Cat("B") /\ out.stats[2].count = 1
                  /\ out.stats[2].mean = Float64(100, 1) /\ out.stats[2].median = Float64(100, 1)

\* C7: plot_manhattan_neighborhood_prices completes, shows one bar per
\* Manhattan neighborhood from the highest mean price to the lowest, the
\* first top_n of them when top_n is given, saves the chart when save_path
\* is given, and returns None.
PlotShowsRankedBars ==
    (call.fn = "plot_manhattan_neighborhood_prices") =>
        LET a == call.arg
            manhattan == Table(a.cols, SelectSeq(a.rows, LAMBDA row :
                             row["neighbourhood_group_cleansed"] = Cat("Manhattan")))
            groups == Cardinality(KeysOf(manhattan, "neighbourhood_cleansed"))
        IN  /\ call.exc = "none"
            /\ out.returned
            /\ Len(out.shown) = IF call.top_n # 0 /\ call.top_n < groups THEN call.top_n ELSE groups
            /\ \A i, j \in 1..Len(out.shown) :
                  i < j => ~NumLess(out.shown[i].value, out.shown[j].value)
            /\ out.saved = call.save_path

\* C8: compare_boroughs returns the mean price of the rows of the target
\* borough, the mean price of every other row, and their quotient; when the
\* other mean is zero or missing it does not raise and the Ratio is infinite
\* or missing.
CompareBoroughsMeansAndRatio ==
    (call.fn = "compare_boroughs") =>
        LET a == call.arg
            target == Cat(call.target_borough)
            mine == PricesWhere(a, LAMBDA row : row["neighbourhood_group_cleansed"] = target)
            others == PricesWhere(a, LAMBDA row : row["neighbourhood_group_cleansed"] # target)
        IN  /\ call.exc = "none"
            /\ Len(mine) + Len(others) = Len(a.rows)
            /\ IsMeanOf(out.target_avg, mine)
            /\ IsMeanOf(out.other_avg, others)
            /\ IsQuotientOf(out.Ratio, out.target_avg, out.other_avg)
            /\ (IsNaN(out.other_avg) \/ out.other_avg.n = 0) => out.Ratio.t \in {"inf", "nan"}

ComparedWithZeroOtherMean ==
    /\ call.fn = "compare_boroughs" /\ call.exc = "none"
    /\ out.other_avg = Float64(0, 1)
    /\ IsNum(out.target_avg) /\ out.target_avg.n > 0
    /\ out.Ratio = Inf(1)

\* the per-group means of a table that are numbers
MeansOf(a, col) ==
    {m \in {Mean(PricesWhere(a, LAMBDA row : row[col] = k)) : k \in KeysOf(a, col)} : IsNum(m)}

\* x rounded to two decimals, in hundredths (x a non-negative number)
Round2(x) == (x.n * 200 + x.d) \div (2 * x.d)

\* what calculate_seasonal_range returns when some group has a mean
SeasonalRangeFormulas ==
    LET means == MeansOf(call.arg, call.groupby_col)
    IN  /\ call.exc = "none"
        /\ means # {} =>
              /\ out.min_price \in means /\ \A m \in means : ~NumLess(m, out.min_price)
              /\ out.max_price \in means /\ \A m \in means : ~NumLess(out.max_price, m)
              /\ IsNum(out.range) /\ FAdd(out.range, out.min_price) = out.max_price
              /\ IF out.min_price.n = 0 THEN out.pct_range.t \in {"inf", "nan"}
                 ELSE FMul(out.pct_range, out.min_price) = FMul(out.range, Float64(100, 1))
        /\ (input = SeasonalExample /\ call.groupby_col = "month_num") =>
              /\ out.min_price = Float64(90, 1)
              /\ out.max_price = Float64(150, 1)
              /\ out.range = Float64(60, 1)
              /\ Round2(out.pct_range) = 6667

\* C9 as stated: the minimum and maximum group mean, their difference and
\* the difference as a percentage of the minimum (90, 150, 60 and 66.67 for
\* the means 100, 150, 90), with range >= 0 for every non-empty input.
SeasonalRangeNonNegative ==
    (call.fn = "calculate_seasonal_range") =>
        /\ SeasonalRangeFormulas
        /\ Len(call.arg.rows) >= 1 => IsNum(out.range) /\ ~NumLess(out.range, Float64(0, 1))

\* C9, amended: the same, with range >= 0 whenever some group (a non-missing
\* key) has a non-missing mean; when none has, the four results are missing.
SeasonalRangeOfGroupMeans ==
    (call.fn = "calculate_seasonal_range") =>
        /\ SeasonalRangeFormulas
        /\ MeansOf(call.arg, call.groupby_col) # {} =>
              IsNum(out.range) /\ ~NumLess(out.range, Float64(0, 1))
        /\ MeansOf(call.arg, call.groupby_col) = {} =>
              /\ IsNaN(out.min_price) /\ IsNaN(out.max_price)
              /\ IsNaN(out.range) /\ IsNaN(out.pct_range)

SeasonalExampleComputed ==
    /\ call.fn = "calculate_seasonal_range" /\ call.exc = "none"
    /\ input = SeasonalExample /\ call.groupby_col = "month_num"
    /\ Len(call.arg.rows) = 3
    /\ out.range = Float64(60, 1)

RECURSIVE SumSizes(_)
SumSizes(sizes) == IF sizes = <<>> THEN 0 ELSE Head(sizes).size + SumSizes(Tail(sizes))

\* the rows whose price is strictly above the threshold
Above(a, threshold) ==
    {i \in 1..Len(a.rows) : NumLess(Int64(threshold), PriceOf(a.rows[i]))}

\* what count_luxury_listings returns without a grouping column, and the
\* example: {50, 150, 1500} above 1000 is 1
LuxuryScalarCount ==
    /\ call.exc = "none"
    /\ ~out.grouped => out.n = Cardinality(Above(call.arg, call.price_threshold))
    /\ (input = LuxuryExample /\ call.price_threshold = 1000 /\ ~out.grouped) => out.n = 1

\* C10 as stated: the rows strictly above the threshold are counted, and the
\* per-group counts of a grouped call sum to the count of the ungrouped call.
LuxuryGroupsSumToCount ==
    (call.fn = "count_luxury_listings") =>
        /\ LuxuryScalarCount
        /\ out.grouped => SumSizes(out.sizes) = Cardinality(Above(call.arg, call.price_threshold))

\* C10, amended: the per-group counts sum to the number of rows above the
\* threshold whose grouping value is not missing, each group's count being
\* the number of such rows with its key.
LuxuryGroupsSumToKeyedCount ==
    (call.fn = "count_luxury_listings") =>
        /\ LuxuryScalarCount
        /\ out.grouped =>
              LET keyed == {i \in Above(call.arg, call.price_threshold) :
                               ~IsNaN(call.arg.rows[i][call.groupby_col])}
              IN  /\ SumSizes(out.sizes) = Cardinality(keyed)
                  /\ \A k \in 1..Len(out.sizes) :
                        out.sizes[k].size =
                            Cardinality({i \in keyed :
                                call.arg.rows[i][call.groupby_col] = out.sizes[k].key})

LuxuryGroupedWithMissingKey ==
    /\ call.fn = "count_luxury_listings" /\ call.exc = "none"
    /\ out.grouped
    /\ SumSizes(out.sizes) >= 1
    /\ SumSizes(out.sizes) < Cardinality(Above(call.arg, call.price_threshold))

\* two cells hold the same number, or are both missing
SameValue(a, b) ==
    \/ IsNaN(a) /\ IsNaN(b)
    \/ a.t = "inf" /\ b.t = "inf" /\ a.n = b.n
    \/ NumEq(a, b)

SamePrices(a, b) ==
    /\ Len(a.rows) = Len(b.rows)
    /\ \A i \in 1..Len(a.rows) : SameValue(PriceOf(a.rows[i]), PriceOf(b.rows[i]))

NumericPrices(df) == \A i \in 1..Len(df.rows) : PriceOf(df.rows[i]).t \notin {"str", "cat"}

\* C11: clean_price_column is idempotent: cleaning the table a first
\* clean_price_column returned gives the same price values, missing entries
\* at the same rows, and cleaning a price column that is already numeric
\* leaves every value as it was.
CleanPriceColumnIdempotent ==
    (call.fn = "clean_price_column") =>
        /\ call.exc = "none"
        /\ NumericPrices(out)
        /\ NumericPrices(call.arg) => SamePrices(out, call.arg)
        /\ call.src = 2 =>
              /\ call.arg.rows = clean_price_column(<<input>>, 1).h[2].rows
              /\ SamePrices(out, call.arg)

\* a cleaned table with a price of cents, or with a missing price beside a
\* number, cleaned again
CleanedTwice ==
    /\ call.fn = "clean_price_column" /\ call.exc = "none" /\ call.src = 2
    /\ ~NumericPrices(input)
    /\ \E i \in 1..Len(out.rows) :
          PriceOf(out.rows[i]).t = "float" /\ PriceOf(out.rows[i]).d > 1
    /\ \E i \in 1..Len(out.rows) : NumEq(PriceOf(out.rows[i]), Float64(12345, 10))

\* the same call of filter_price_outliers or preprocess_data with the other
\* value of verbose
WithOtherVerbose ==
    IF call.fn = "filter_price_outliers"
    THEN filter_price_outliers(<<call.arg>>, 1, call.max_price, ~call.verbose)
    ELSE preprocess_data(<<call.arg>>, 1, call.max_price, ~call.verbose)

\* C12: filter_price_outliers, and with it preprocess_data, called with
\* verbose=True on a table of zero rows raises ZeroDivisionError and returns
\* no table; with verbose=False it returns an empty table; on a table with
\* at least one row the value of verbose does not change what is returned.
VerboseRaisesOnlyOnNoRows ==
    (call.fn \in {"filter_price_outliers", "preprocess_data"}) =>
        LET n == Len(call.arg.rows)
            other == WithOtherVerbose
        IN  /\ (n = 0 /\ call.verbose) =>
                  /\ call.exc = "ZeroDivisionError"
                  /\ call.ref = 0
                  /\ other.exc = "none" /\ other.h[other.r].rows = <<>>
            /\ (n = 0 /\ ~call.verbose) =>
                  /\ call.exc = "none"
                  /\ call.ref # 0
                  /\ out.rows = <<>>
                  /\ other.exc = "ZeroDivisionError"
            /\ call.exc = "ZeroDivisionError" => (n = 0 /\ call.verbose)
            /\ n >= 1 =>
                  /\ other.exc = call.exc
                  /\ call.exc = "none" => other.h[other.r] = out

\* preprocess_data with verbose=True on a table without rows
VerbosePreprocessOfNoRows ==
    /\ call.fn = "preprocess_data" /\ call.verbose
    /\ Len(call.arg.rows) = 0 /\ Len(call.arg.cols) > 0
    /\ call.exc = "ZeroDivisionError" /\ call.ref = 0

=============================================================================
